---- MODULE Spec2Model ----
(***************************************************************************)
(* Model of bot_tiktok_userbot.py: the access filter, the media            *)
(* classifier and the request handler tiktok_handler, run as coroutines    *)
(* of one event loop over a shared downloads directory.                    *)
(***************************************************************************)
EXTENDS Integers, Sequences, FiniteSets, TLC

(***************************************************************************)
(* Bounds of the model.                                                    *)
(***************************************************************************)
\* largest number of thumbnails a probe result carries
MaxThumbs == 3
\* longest list of images the gallery tool writes, next to one list that
\* overflows a single album
MaxImgs == 1

(***************************************************************************)
(* Strings are sequences of one-character strings, so that lower(),        *)
(* strip(), split() and str() are computed and not assumed.                *)
(***************************************************************************)
None == "None"

Upper ==
    <<"A", "B", "C", "D", "E", "F", "G", "H", "I", "J", "K", "L", "M",
      "N", "O", "P", "Q", "R", "S", "T", "U", "V", "W", "X", "Y", "Z">>

LowerOf ==
    <<"a", "b", "c", "d", "e", "f", "g", "h", "i", "j", "k", "l", "m",
      "n", "o", "p", "q", "r", "s", "t", "u", "v", "w", "x", "y", "z">>

\* str.lower() on one character
LowerChar(c) ==
    IF \E i \in 1..Len(Upper) : Upper[i] = c
    THEN LowerOf[CHOOSE i \in 1..Len(Upper) : Upper[i] = c]
    ELSE c

\* str.lower()
Lower(s) == [i \in 1..Len(s) |-> LowerChar(s[i])]

\* str.strip(): drops the blanks at both ends
RECURSIVE LStrip(_)
LStrip(s) == IF s # <<>> /\ Head(s) = " " THEN LStrip(Tail(s)) ELSE s

RECURSIVE RStrip(_)
RStrip(s) ==
    IF s # <<>> /\ s[Len(s)] = " " THEN RStrip(SubSeq(s, 1, Len(s) - 1)) ELSE s

Strip(s) == RStrip(LStrip(s))

\* str.split(","): the pieces between the commas, the empty ones included
RECURSIVE Split(_, _)
Split(s, cur) ==
    IF s = <<>> THEN <<cur>>
    ELSE IF Head(s) = "," THEN <<cur>> \o Split(Tail(s), <<>>)
    ELSE Split(Tail(s), Append(cur, Head(s)))

DigitChars == <<"0", "1", "2", "3", "4", "5", "6", "7", "8", "9">>

\* str() of a non-negative integer
RECURSIVE Str(_)
Str(n) ==
    IF n < 10 THEN <<DigitChars[n + 1]>>
    ELSE Str(n \div 10) \o <<DigitChars[(n % 10) + 1]>>

\* the characters of the model's strings in the order of their code points
Chars ==
    <<" ", "#", ",", ".", "/">> \o DigitChars \o <<":", "=", "?", "@">>
       \o Upper \o <<"_">> \o LowerOf

Ord(c) == CHOOSE i \in 1..Len(Chars) : Chars[i] = c

\* s < t on strings: the first differing character decides, a proper
\* prefix comes first
RECURSIVE StrLess(_, _)
StrLess(s, t) ==
    IF t = <<>> THEN FALSE
    ELSE IF s = <<>> THEN TRUE
    ELSE IF Head(s) = Head(t) THEN StrLess(Tail(s), Tail(t))
    ELSE Ord(Head(s)) < Ord(Head(t))

(***************************************************************************)
(* Configuration, read once from the environment.                          *)
(***************************************************************************)
\* ALLOWED: the entries of ALLOWED_CHATS, stripped and lowercased, the
\* empty ones dropped
ParseAllowed(env) ==
    LET parts == Split(env, <<>>)
    IN  {Lower(Strip(parts[i])) : i \in {j \in 1..Len(parts) : Strip(parts[j]) # <<>>}}

\* values of the ALLOWED_CHATS environment variable
AllowedEnvs ==
    { <<>>,
      <<"@", "B", "o", "b">>,
      <<" ", "4", "3", ",", "@", "A", "M", "Y", ",", "@", "b", "o", "b">>,
      <<"4", "2">> }

\* bytes in a megabyte
MiB == 1048576

\* values of MAX_MB, the cap in megabytes on a file that is sent
MaxMbValues == {20}

\* human_mb: the size in megabytes rounded to two decimals, held as
\* hundredths of a megabyte (round half to even, as round() does)
human_mb(bytes_size) ==
    LET whole == bytes_size \div MiB
        num == (bytes_size % MiB) * 100
        q == num \div MiB
        rest == num % MiB
        up == (2 * rest > MiB) \/ (2 * rest = MiB /\ q % 2 = 1)
    IN  whole * 100 + q + (IF up THEN 1 ELSE 0)

(***************************************************************************)
(* Conversations and the access filter.                                    *)
(***************************************************************************)
\* a conversation: the peer kind, whether the chat entity is resolved,
\* its username (<<>> when it has none) and its numeric id
Chats ==
    { [kind |-> "user", entity |-> TRUE, username |-> <<"B", "o", "b">>, id |-> 42],
      [kind |-> "user", entity |-> TRUE, username |-> <<>>, id |-> 43],
      [kind |-> "user", entity |-> FALSE, username |-> <<>>, id |-> 43],
      [kind |-> "channel", entity |-> TRUE, username |-> <<"a", "m", "y">>, id |-> 44],
      [kind |-> "chat", entity |-> TRUE, username |-> <<>>, id |-> 45] }

\* event.is_private
is_private(c) == c.kind = "user"

\* the None that _chat_key returns when it finds no key
NoKey == <<>>

\* _chat_key: "@username" lowercased when the chat has a username, else the
\* chat's id, else the id of the message's peer
chat_key(c) ==
    IF c.entity /\ c.username # <<>> THEN Lower(<<"@">> \o c.username)
    ELSE IF c.entity THEN Str(c.id)
    ELSE IF c.kind \in {"user", "chat", "channel"} THEN Str(c.id)
    ELSE NoKey

\* chat_is_allowed without its private-only test
chat_is_allowed_open(c, only_private, allowed) ==
    IF allowed = {} THEN TRUE
    ELSE chat_key(c) # NoKey /\ Lower(chat_key(c)) \in allowed

\* chat_is_allowed under the configuration (only_private, allowed)
chat_is_allowed(c, only_private, allowed) ==
    IF only_private /\ ~is_private(c) THEN FALSE
    ELSE IF allowed = {} THEN TRUE
    ELSE chat_key(c) # NoKey /\ Lower(chat_key(c)) \in allowed

(***************************************************************************)
(* The probe result and the media classifier.                              *)
(***************************************************************************)
\* info.get("duration", None) of metadata without a duration
NoDuration == -1

\* what probe_tiktok returns: metadata (duration, thumbnails, entries), the
\* empty mapping, or an error marker with its unsupported flag
ProbeInfos ==
    [err : {"none"}, empty : {FALSE}, unsupported : {FALSE},
     duration : {NoDuration, 0, 12}, thumbs : 0..MaxThumbs,
     entries : {"absent", "empty", "dicts", "mixed"}]

ProbeEmpty ==
    [err |-> "none", empty |-> TRUE, unsupported |-> FALSE,
     duration |-> NoDuration, thumbs |-> 0, entries |-> "absent"]

\* the messages of the exceptions the probe can raise
ProbeErrorTexts == {"Unsupported URL", "RegexMatchError", "HTTP Error 403"}

ProbeError(msg) ==
    [err |-> msg, empty |-> FALSE,
     unsupported |-> (msg = "Unsupported URL" \/ msg = "RegexMatchError"),
     duration |-> NoDuration, thumbs |-> 0, entries |-> "absent"]

\* the local info before the probe and after its use
NoInfo == [ProbeEmpty EXCEPT !.err = "unset"]

ProbeResults == ProbeInfos \cup {ProbeEmpty} \cup {ProbeError(m) : m \in ProbeErrorTexts}

\* is_slideshow_from_info with the thumbnail test off by one
is_slideshow_one_thumb(info) ==
    IF info.empty \/ info.err # "none" THEN FALSE
    ELSE IF info.entries = "dicts" THEN TRUE
    ELSE info.duration \in {NoDuration, 0} /\ info.thumbs >= 1

\* is_slideshow_from_info
is_slideshow_from_info(info) ==
    IF info.empty \/ info.err # "none" THEN FALSE
    ELSE IF info.entries = "dicts" THEN TRUE
    ELSE info.duration \in {NoDuration, 0} /\ info.thumbs >= 2

\* the branch the handler takes: lines 206-209
takes_slideshow(info) == is_slideshow_from_info(info) \/ info.unsupported

(***************************************************************************)
(* The downloads directory.  A file is a record: the message id k its path *)
(* is keyed by, its kind ("img" inside the directory tt_k, "mp4" for       *)
(* tt_k.mp4, "final" for the name the extraction library renamed the video *)
(* to, "part" for a fragment tt_k.mp4.part), the request w that wrote it,  *)
(* for an entry of tt_k its path below the directory and whether it is a   *)
(* regular file, and the size in bytes.                                    *)
(***************************************************************************)
\* sizes of the videos the extraction library writes: 5 MB, 5000 bytes
\* over 20 MB, 25 MB; and of the images the gallery tool writes
VideoSizes == {5 * MiB, 20 * MiB + 5000, 25 * MiB}

ImgSizes == {5 * MiB, 25 * MiB}

\* send_in_albums: per_album
per_album == 10

Exists(files, k, kind) == \E f \in files : f.k = k /\ f.kind = kind

\* safe_unlink
safe_unlink(files, k, kind) == {f \in files : ~(f.k = k /\ f.kind = kind)}

\* clean_video_files([p]): unlinks p, then the fragments p.stem + ".*.part";
\* a renamed video has another stem than tt_k, its glob skips tt_k.mp4.part
clean_video_files(files, k, name) ==
    IF name = "mp4"
    THEN safe_unlink(safe_unlink(files, k, "mp4"), k, "part")
    ELSE safe_unlink(files, k, name)

\* clean_slideshow_dir: rmtree of tt_k
clean_slideshow_dir(f, k) ==
    [dirs |-> f.dirs \ {k},
     files |-> {x \in f.files : ~(x.k = k /\ x.kind = "img")}]

\* collect_images: exts
exts ==
    {<<".", "j", "p", "g">>, <<".", "j", "p", "e", "g">>,
     <<".", "p", "n", "g">>, <<".", "w", "e", "b", "p">>,
     <<".", "b", "m", "p">>, <<".", "g", "i", "f">>}

\* str.rfind of one character, counted from 1; 0 when it is absent
rfind(s, c) ==
    LET I == {i \in 1..Len(s) : s[i] = c}
    IN  IF I = {} THEN 0 ELSE CHOOSE i \in I : \A j \in I : j <= i

\* Path.name: the last component of a path
PathName(p) == SubSeq(p, rfind(p, "/") + 1, Len(p))

\* Path.suffix: the last component from its last dot on, unless the dot
\* is its first or its last character
suffix(p) ==
    LET name == PathName(p)
        i == rfind(name, ".")
    IN  IF 1 < i /\ i < Len(name) THEN SubSeq(name, i, Len(name)) ELSE <<>>

\* the order of str(path) on the entries of one directory
PathLess(a, b) == StrLess(a.name, b.name)

RECURSIVE SortByPath(_)
SortByPath(S) ==
    IF S = {} THEN <<>>
    ELSE LET m == CHOOSE a \in S : \A b \in S \ {a} : PathLess(a, b)
         IN  <<m>> \o SortByPath(S \ {m})

\* collect_images comparing the suffix as it is spelled
collect_images_cased(files, k) ==
    SortByPath({f \in files : /\ f.k = k /\ f.kind = "img"
                              /\ suffix(f.name) \in exts
                              /\ f.isfile})

\* collect_images
collect_images(files, k) ==
    SortByPath({f \in files : /\ f.k = k /\ f.kind = "img"
                              /\ Lower(suffix(f.name)) \in exts
                              /\ f.isfile})

\* the finally block of tiktok_handler
Finally(files, k, tmp, auto_clean) ==
    IF auto_clean THEN clean_video_files(files, k, tmp)
    ELSE safe_unlink(files, k, tmp)

(***************************************************************************)
(* The URL of a message.  TT_REGEX is                                      *)
(*   https?://(?:(?:www|vt|vm|m)\.)?tiktok\.com/[^\s]+   with IGNORECASE,   *)
(* matched here character by character.                                    *)
(***************************************************************************)
\* the text of s at i is lit, letter case aside (lit is in lower case)
HasAt(s, i, lit) ==
    /\ i + Len(lit) - 1 <= Len(s)
    /\ Lower(SubSeq(s, i, i + Len(lit) - 1)) = lit

\* https?:// at i: the index after it, 0 when it is not there
SchemeEnd(s, i) ==
    IF HasAt(s, i, <<"h", "t", "t", "p", "s", ":", "/", "/">>) THEN i + 8
    ELSE IF HasAt(s, i, <<"h", "t", "t", "p", ":", "/", "/">>) THEN i + 7
    ELSE 0

\* (?:www|vt|vm|m)\.
Subdomains == {<<"w", "w", "w", ".">>, <<"v", "t", ".">>, <<"v", "m", ".">>, <<"m", ".">>}

tiktok_com == <<"t", "i", "k", "t", "o", "k", ".", "c", "o", "m", "/">>

\* (?:(?:www|vt|vm|m)\.)?tiktok\.com/ at j: the index after it, or 0
HostEnd(s, j) ==
    IF \E p \in Subdomains : HasAt(s, j, p \o tiktok_com)
    THEN j + Len(CHOOSE p \in Subdomains : HasAt(s, j, p \o tiktok_com)) + Len(tiktok_com)
    ELSE IF HasAt(s, j, tiktok_com) THEN j + Len(tiktok_com)
    ELSE 0

\* [^\s]+ at k: the index of the last character before the next blank,
\* or 0 when no character that is not a blank stands at k
RECURSIVE RunEnd(_, _)
RunEnd(s, k) ==
    IF k > Len(s) \/ s[k] = " " THEN 0
    ELSE IF k = Len(s) \/ s[k + 1] = " " THEN k
    ELSE RunEnd(s, k + 1)

\* TT_REGEX tried at position i: the index of the last character of the
\* match, or 0
MatchAt(s, i) ==
    LET j == SchemeEnd(s, i)
        k == IF j = 0 THEN 0 ELSE HostEnd(s, j)
    IN  IF k = 0 THEN 0 ELSE RunEnd(s, k)

\* TT_REGEX.search: the needle may stand anywhere
PatternSearch(s) == \E i \in 1..Len(s) : MatchAt(s, i) # 0

\* TT_REGEX.match, which events.NewMessage(pattern=TT_REGEX) applies to the
\* text of a message: the needle must stand at the beginning
PatternMatch(s) == MatchAt(s, 1) # 0

\* match.group(0) of TT_REGEX.search
SearchGroup(s) ==
    LET i == CHOOSE i \in 1..Len(s) :
                /\ MatchAt(s, i) # 0
                /\ \A j \in 1..(i - 1) : MatchAt(s, j) = 0
    IN  SubSeq(s, i, MatchAt(s, i))

\* str.find of one of the characters of cs from position i on, counted
\* from 1; Len(s) + 1 when none is there
FindFrom(s, i, cs) ==
    LET I == {j \in i..Len(s) : s[j] \in cs}
    IN  IF I = {} THEN Len(s) + 1 ELSE CHOOSE j \in I : \A k \in I : j <= k

\* urlsplit: the scheme up to the first colon, in lower case; after "//"
\* the netloc up to the first of / ? #; the fragment from the first #; the
\* query from the first ? before it; the rest is the path
urlsplit(u) ==
    LET c == FindFrom(u, 1, {":"})
        hasScheme == 1 < c /\ c <= Len(u)
        scheme == IF hasScheme THEN Lower(SubSeq(u, 1, c - 1)) ELSE <<>>
        u1 == IF hasScheme THEN SubSeq(u, c + 1, Len(u)) ELSE u
        hasNet == Len(u1) >= 2 /\ SubSeq(u1, 1, 2) = <<"/", "/">>
        d == FindFrom(u1, 3, {"/", "?", "#"})
        netloc == IF hasNet THEN SubSeq(u1, 3, d - 1) ELSE <<>>
        u2 == IF hasNet THEN SubSeq(u1, d, Len(u1)) ELSE u1
        h == FindFrom(u2, 1, {"#"})
        fragment == SubSeq(u2, h + 1, Len(u2))
        u3 == SubSeq(u2, 1, h - 1)
        q == FindFrom(u3, 1, {"?"})
    IN  [scheme |-> scheme, netloc |-> netloc, path |-> SubSeq(u3, 1, q - 1),
         query |-> SubSeq(u3, q + 1, Len(u3)), fragment |-> fragment]

\* str.rstrip('/')
RECURSIVE rstrip_slash(_)
rstrip_slash(s) ==
    IF s # <<>> /\ s[Len(s)] = "/" THEN rstrip_slash(SubSeq(s, 1, Len(s) - 1)) ELSE s

\* urlunsplit((scheme, netloc, path, "", ""))
urlunsplit(scheme, netloc, path) ==
    LET url == IF netloc # <<>>
               THEN <<"/", "/">> \o netloc
                       \o (IF path # <<>> /\ Head(path) # "/" THEN <<"/">> ELSE <<>>)
                       \o path
               ELSE path
    IN  IF scheme # <<>> THEN scheme \o <<":">> \o url ELSE url

\* normalize_tiktok_url taking one slash at most off the end of the path
normalize_one_slash(u) ==
    LET parts == urlsplit(u)
        path == IF parts.path # <<>> /\ parts.path[Len(parts.path)] = "/"
                THEN SubSeq(parts.path, 1, Len(parts.path) - 1) ELSE parts.path
    IN  urlunsplit(parts.scheme, parts.netloc, path)

\* normalize_tiktok_url
normalize_tiktok_url(u) ==
    LET parts == urlsplit(u)
    IN  urlunsplit(parts.scheme, parts.netloc, rstrip_slash(parts.path))

\* a message that is a link and nothing else
UrlOnly ==
    <<"h", "t", "t", "p", "s", ":", "/", "/", "t", "i", "k", "t", "o", "k",
      ".", "c", "o", "m", "/", "a", "/">>

\* the texts of the messages: links with and without a trailing slash and
\* a query, a link after words, in upper case, two links, no link, a link
\* with nothing after the host, with an empty path, with a fragment, a
\* link that a word runs into
Texts ==
    {<<"h", "t", "t", "p", "s", ":", "/", "/", "v", "t", ".", "t", "i", "k",
       "t", "o", "k", ".", "c", "o", "m", "/", "a", "b", "c", "1", "2", "3",
       "/">>,
     <<"h", "t", "t", "p", "s", ":", "/", "/", "v", "t", ".", "t", "i", "k",
       "t", "o", "k", ".", "c", "o", "m", "/", "a", "b", "c", "1", "2", "3">>,
     <<"h", "t", "t", "p", "s", ":", "/", "/", "v", "t", ".", "t", "i", "k",
       "t", "o", "k", ".", "c", "o", "m", "/", "a", "b", "c", "1", "2", "3",
       "?", "x", "=", "1">>,
     <<"h", "t", "t", "p", "s", ":", "/", "/", "v", "t", ".", "t", "i", "k",
       "t", "o", "k", ".", "c", "o", "m", "/", "a", "b", "c", "1", "2", "3",
       "/", "?", "x", "=", "1">>,
     <<"c", "h", "e", "c", "k", " ", "t", "h", "i", "s", " ", "h", "t", "t",
       "p", "s", ":", "/", "/", "v", "t", ".", "t", "i", "k", "t", "o", "k",
       ".", "c", "o", "m", "/", "a", "b", "c", "1", "2", "3", "/">>,
     <<"H", "T", "T", "P", "S", ":", "/", "/", "W", "W", "W", ".", "T", "i",
       "k", "T", "o", "k", ".", "c", "o", "m", "/", "a", "/", "/", "#", "f",
       " ", "o", "k">>,
     <<"h", "t", "t", "p", "s", ":", "/", "/", "t", "i", "k", "t", "o", "k",
       ".", "c", "o", "m", "/", "a", " ", "h", "t", "t", "p", "s", ":", "/",
       "/", "v", "m", ".", "t", "i", "k", "t", "o", "k", ".", "c", "o", "m",
       "/", "b">>,
     <<"h", "e", "l", "l", "o">>,
     <<"h", "t", "t", "p", "s", ":", "/", "/", "t", "i", "k", "t", "o", "k",
       ".", "c", "o", "m", "/", " ", "x">>,
     <<"h", "t", "t", "p", "s", ":", "/", "/", "t", "i", "k", "t", "o", "k",
       ".", "c", "o", "m", "/", "?", "/">>,
     <<"h", "t", "t", "p", ":", "/", "/", "m", ".", "t", "i", "k", "t", "o",
       "k", ".", "c", "o", "m", "/", "a", "?", "b", "#", "c">>,
     <<"x", "h", "t", "t", "p", "s", ":", "/", "/", "v", "m", ".", "t", "i",
       "k", "t", "o", "k", ".", "c", "o", "m", "/", "b">>}

(***************************************************************************)
(* State.                                                                  *)
(*   cfg    the configuration: only_private, allowed, auto_clean, max_mb   *)
(*   event  per request: the conversation, the message id and the text     *)
(*   rq     per request: the handler's position pc and its locals, with    *)
(*          log (the outbound actions done and the external calls begun,   *)
(*          in order), sent (the albums and files sent), touched (the      *)
(*          paths it created, wrote or removed) and left (what existed     *)
(*          under its paths when the handler ended)                        *)
(*   fs     the downloads directory: the directories tt_k and the files    *)
(*   busy   the request, if any, whose blocking call holds the loop's thread *)
(***************************************************************************)
VARIABLES cfg, event, rq, fs, busy

vars == <<cfg, event, rq, fs, busy>>

\* the handlers in flight
Requests == {1, 2}
NoReq == {}

\* the message ids of the events
MsgIds == {7, 8}

\* ids of private chats and basic groups come from one counter of the
\* account; a channel numbers its messages itself
SharesCounter(c) == c.kind \in {"user", "chat"}

NothingLeft == [dir |-> FALSE, video |-> FALSE, part |-> FALSE, imgs |-> FALSE]

\* no result of the gallery tool
NoProc == [returncode |-> 0, stderr |-> <<>>, stdout |-> <<>>]

NewRequest ==
    [pc |-> "idle", log |-> <<>>, info |-> NoInfo, tmp_mp4 |-> "mp4",
     raw_url |-> <<>>, url |-> <<>>,
     proc |-> NoProc, shown |-> <<>>, imgs |-> <<>>,
     files |-> <<>>, skipped |-> 0, next |-> 0, pending |-> None,
     size_mb |-> 0, sent |-> <<>>, touched |-> {}, left |-> NothingLeft]

\* the messages in flight, their texts taken from T: two from
\* conversations that do not tell their ids apart when one of them is a
\* channel
EventsWith(T) ==
    {e \in [Requests -> [chat : Chats, id : MsgIds, text : T]] :
        \A r1, r2 \in Requests :
           r1 < r2 =>
              /\ e[r1].id <= e[r2].id
              /\ e[r1].id = e[r2].id =>
                    /\ e[r1].chat # e[r2].chat
                    /\ ~(SharesCounter(e[r1].chat) /\ SharesCounter(e[r2].chat))}

Events == EventsWith({UrlOnly})

Configs ==
    [only_private : BOOLEAN, allowed : {ParseAllowed(e) : e \in AllowedEnvs},
     auto_clean : BOOLEAN, max_mb : MaxMbValues]

InitWith(c, e) ==
    /\ cfg = c
    /\ event = e
    /\ rq = [r \in Requests |-> NewRequest]
    /\ fs = [dirs |-> {}, files |-> {}]
    /\ busy = NoReq

\* every configuration, every pair of conversations
InitAccess == \E c \in Configs, e \in Events : InitWith(c, e)

\* the first message is from a private conversation with a username, the
\* second from a private conversation without one, or from a channel whose
\* own counter gave it the id of the first; private-only is switched off
\* only where there is a channel to let in
Init ==
    \E c \in Configs, e \in Events :
       /\ c.allowed \in {ParseAllowed(AE) : AE \in {<<>>, <<"@", "B", "o", "b">>}}
       /\ e[1].chat.kind = "user" /\ e[1].chat.username # <<>>
       /\ e[2].chat.entity /\ e[2].chat.id \in {43, 44}
       /\ e[2].chat.kind = "channel" => e[2].id = e[1].id
       /\ e[2].chat.kind = "user" => c.only_private
       /\ InitWith(c, e)

K(r) == event[r].id

\* what exists under the paths of request r in the directory f
Leftover(f, r) ==
    [dir |-> K(r) \in f.dirs,
     video |-> Exists(f.files, K(r), "mp4") \/ Exists(f.files, K(r), "final"),
     part |-> Exists(f.files, K(r), "part"),
     imgs |-> Exists(f.files, K(r), "img")]

\* the handler ends: it returns, or an exception leaves it
Ended(rec, how, f, r) == [rec EXCEPT !.pc = how, !.left = Leftover(f, r)]

\* the coroutine of r can run: no blocking call of another request holds
\* the thread
CanRun(r) == busy = NoReq

\* an exception inside the try block that is swallowed, the handler going
\* on with the call that raised
ExceptRetry(rec) == [rec EXCEPT !.log = Append(@, "exc")]

\* an exception inside the try block: line 285-286, the error edit is awaited
Except(rec) ==
    [rec EXCEPT !.pc = "await_edit_error", !.log = Append(@, "exc"), !.info = NoInfo,
                !.imgs = <<>>, !.proc = [@ EXCEPT !.stderr = <<>>, !.stdout = <<>>],
                !.shown = <<>>]

\* the return statements inside the try block, and its normal end: the
\* finally block runs and the handler returns
ReturnFrom(rec, f, r) ==
    LET f2 == [f EXCEPT !.files = Finally(@, K(r), rec.tmp_mp4, cfg.auto_clean)]
    IN  [rq |-> Ended([rec EXCEPT !.touched = @ \cup {<<rec.tmp_mp4, K(r)>>}],
                      "returned", f2, r),
         fs |-> f2]

(***************************************************************************)
(* tiktok_handler, one action per stretch of code between two awaits.  A   *)
(* blocking external call (probe, gallery tool, download) begins in the    *)
(* step that reaches it and holds the thread until its own action ends it. *)
(***************************************************************************)
\* the handler with the acknowledgment sent ahead of the access filter
DispatchReplyFirst(r) ==
    /\ rq[r].pc = "idle" /\ CanRun(r)
    /\ rq' = [rq EXCEPT ![r] = [@ EXCEPT !.pc = "await_reply"]]
    /\ UNCHANGED <<cfg, event, fs, busy>>

\* lines 182-194: the event filter of the decorator hands the message to
\* the handler or not; the access filter; the search for the link; then
\* the acknowledgment reply, which carries the normalized link, is sent
Dispatch(r) ==
    /\ rq[r].pc = "idle" /\ CanRun(r)
    /\ rq' = [rq EXCEPT ![r] =
                IF ~PatternMatch(event[r].text)
                THEN [@ EXCEPT !.pc = "unhandled"]
                ELSE IF ~chat_is_allowed(event[r].chat, cfg.only_private, cfg.allowed)
                THEN Ended(@, "returned", fs, r)
                ELSE IF ~PatternSearch(event[r].text)
                THEN Ended(@, "returned", fs, r)
                ELSE [@ EXCEPT !.pc = "await_reply",
                               !.raw_url = SearchGroup(event[r].text),
                               !.url = normalize_tiktok_url(SearchGroup(event[r].text))]]
    /\ UNCHANGED <<cfg, event, fs, busy>>

\* lines 194-205: the reply returns or raises; slide_dir.mkdir; the probe
\* begins.  Neither call is inside the try block; raw_url is not read again
ReplyDone(r) ==
    /\ rq[r].pc = "await_reply" /\ CanRun(r)
    /\ \E replied \in BOOLEAN, made \in BOOLEAN :
          IF ~replied
          THEN /\ rq' = [rq EXCEPT ![r] =
                           Ended([@ EXCEPT !.raw_url = <<>>], "raised", fs, r)]
               /\ UNCHANGED <<fs, busy>>
          ELSE IF ~made
          THEN /\ rq' = [rq EXCEPT ![r] =
                           Ended([@ EXCEPT !.log = Append(@, "reply"),
                                           !.raw_url = <<>>], "raised", fs, r)]
               /\ UNCHANGED <<fs, busy>>
          ELSE /\ rq' = [rq EXCEPT ![r] =
                           [@ EXCEPT !.pc = "in_probe", !.raw_url = <<>>,
                                     !.log = @ \o <<"reply", "probe">>,
                                     !.touched = @ \cup {<<"dir", K(r)>>}]]
               /\ fs' = [fs EXCEPT !.dirs = @ \cup {K(r)}]
               /\ busy' = {r}
    /\ UNCHANGED <<cfg, event>>

\* lines 205-210 and 258: probe_tiktok returns (it catches its exceptions),
\* the branch is chosen and its status edit is sent
ProbeDone(r) ==
    /\ rq[r].pc = "in_probe" /\ busy = {r}
    /\ \E info \in ProbeResults :
          rq' = [rq EXCEPT ![r] =
                   [@ EXCEPT !.pc = IF takes_slideshow(info)
                                    THEN "await_edit_slideshow" ELSE "await_edit_video",
                             !.info = info]]
    /\ busy' = NoReq
    /\ UNCHANGED <<cfg, event, fs>>

\* lines 210-211: the slideshow status edit returns; run_gallery_dl begins
EditSlideshowDone(r) ==
    /\ rq[r].pc = "await_edit_slideshow" /\ CanRun(r)
    /\ \E ok \in BOOLEAN :
          IF ok
          THEN /\ rq' = [rq EXCEPT ![r] =
                           [@ EXCEPT !.pc = "in_gallery", !.info = NoInfo,
                                     !.log = @ \o <<"edit_slideshow", "gallery">>]]
               /\ busy' = {r}
          ELSE /\ rq' = [rq EXCEPT ![r] = Except(@)]
               /\ UNCHANGED busy
    /\ UNCHANGED <<cfg, event, fs>>

\* what the gallery tool does: subprocess.run raises, or the tool exits
\* with a status, having written entries into the directory and text to
\* its two output streams
GalleryImgLists ==
    UNION {[1..n -> ImgSizes] : n \in 0..MaxImgs}
       \cup {[i \in 1..(per_album + 1) |-> 5 * MiB]}

GalleryOutcomes ==
    {[raises |-> TRUE, returncode |-> 0, stderr |-> <<>>, stdout |-> <<>>,
      imgs |-> <<>>]}
       \cup {[raises |-> FALSE, returncode |-> 1, stderr |-> <<"e">>,
              stdout |-> <<>>, imgs |-> l] : l \in {<<>>, <<5 * MiB>>}}
       \cup {[raises |-> FALSE, returncode |-> 0, stderr |-> <<>>,
              stdout |-> <<>>, imgs |-> l] : l \in GalleryImgLists}

\* the name the tool gives the n-th image of the post that request w asked for
ImgName(w, n) == Str(w) \o <<"_">> \o Str(n) \o <<".", "j", "p", "g">>

\* the regular files the tool writes for a list of image sizes
Named(r, l) ==
    {[name |-> ImgName(r, i), isfile |-> TRUE, size |-> l[i]] : i \in 1..Len(l)}

\* the tool's entries land in tt_k, replacing what had their names
WriteImgs(f, r, entries) ==
    IF entries = {} THEN f
    ELSE [dirs |-> f.dirs \cup {K(r)},
          files |-> {x \in f.files :
                        ~(x.k = K(r) /\ x.kind = "img"
                             /\ x.name \in {e.name : e \in entries})}
                      \cup {[k |-> K(r), kind |-> "img", w |-> r, name |-> e.name,
                             isfile |-> e.isfile, size |-> e.size] : e \in entries}]

\* lines 222-230: the size filter
FitsCap(p) == human_mb(p.size) <= cfg.max_mb * 100

\* line 214: the length the tool's output is cut to
ErrCut == 500

\* the failure text carrying the tool's output whole
ErrShownWhole(proc) ==
    IF Strip(proc.stderr) # <<>> THEN Strip(proc.stderr) ELSE Strip(proc.stdout)

\* lines 213-214: err[:500] of proc.stderr.strip() or proc.stdout.strip()
ErrShown(proc) ==
    LET err == IF Strip(proc.stderr) # <<>> THEN Strip(proc.stderr)
               ELSE Strip(proc.stdout)
    IN  SubSeq(err, 1, IF Len(err) < ErrCut THEN Len(err) ELSE ErrCut)

\* lines 211-243: the gallery tool ends with outcome out, having written
\* entries; the images are collected and filtered, and the edit that
\* reports the outcome is sent
GalleryEnds(r, out, entries) ==
    LET f2 == WriteImgs(fs, r, entries)
        proc == [returncode |-> out.returncode, stderr |-> out.stderr,
                 stdout |-> out.stdout]
        imgs == collect_images(f2.files, K(r))
        filtered == SelectSeq(imgs, FitsCap)
        fail(text) == [rq[r] EXCEPT !.pc = "await_edit_failure", !.pending = text]
    IN  /\ fs' = f2
        /\ rq' = [rq EXCEPT ![r] =
              IF out.raises THEN Except(@)
              ELSE IF out.returncode # 0
              THEN [fail("edit_gallery_failed") EXCEPT !.proc = proc,
                                                       !.shown = ErrShown(proc)]
              ELSE IF imgs = <<>> THEN fail("edit_no_images")
              ELSE IF filtered = <<>>
              THEN [fail("edit_all_oversized") EXCEPT !.imgs = imgs]
              ELSE [@ EXCEPT !.pc = "await_edit_album", !.imgs = imgs,
                             !.files = filtered,
                             !.skipped = Len(imgs) - Len(filtered)]]
        /\ busy' = NoReq
        /\ UNCHANGED <<cfg, event>>

GalleryDone(r) ==
    /\ rq[r].pc = "in_gallery" /\ busy = {r}
    /\ \E out \in GalleryOutcomes : GalleryEnds(r, out, Named(r, out.imgs))

\* entries the tool may leave in the directory: images whose suffixes
\* differ in case, a file that is no image, an image one level down, an
\* image 5000 bytes over 20 MB, a directory with an image's name, a file
\* whose whole name is a suffix
TreePool ==
    {[name |-> <<"a", ".", "j", "p", "g">>, isfile |-> TRUE, size |-> 5 * MiB],
     [name |-> <<"B", ".", "P", "N", "G">>, isfile |-> TRUE, size |-> 15 * MiB],
     [name |-> <<"c", ".", "w", "e", "b", "p">>, isfile |-> TRUE, size |-> 25 * MiB],
     [name |-> <<"d", ".", "j", "s", "o", "n">>, isfile |-> TRUE, size |-> 5 * MiB],
     [name |-> <<"s", "/", "e", ".", "g", "i", "f">>, isfile |-> TRUE, size |-> 20 * MiB + 5000],
     [name |-> <<"f", ".", "j", "p", "g">>, isfile |-> FALSE, size |-> 0],
     [name |-> <<".", "b", "m", "p">>, isfile |-> TRUE, size |-> 5 * MiB]}

\* n images p1.jpg .. pn.jpg of 5 MB
Row(n) ==
    {[name |-> <<"p">> \o Str(i) \o <<".", "j", "p", "g">>, isfile |-> TRUE, size |-> 5 * MiB] :
        i \in 1..n}

\* what the tool leaves: any part of the pool, or a row that fills one
\* album, overflows it by one, or overflows two
Trees == (SUBSET TreePool) \cup {Row(n) : n \in {per_album, per_album + 1,
                                                2 * per_album + 1}}

\* what the tool writes to its streams when it fails: nothing, blanks,
\* a short text, a text one character longer than the cut
ErrTexts == {<<>>, <<" ", " ">>, <<" ", "e", "r", "r", " ">>, [i \in 1..(ErrCut + 1) |-> "x"]}

OutTexts == {<<>>, <<"o", "u", "t", " ">>}

TreeOutcomes ==
    {[raises |-> TRUE, returncode |-> 0, stderr |-> <<>>, stdout |-> <<>>,
      tree |-> {}]}
       \cup {[raises |-> FALSE, returncode |-> 1, stderr |-> e, stdout |-> o,
              tree |-> t] : e \in ErrTexts, o \in OutTexts,
                            t \in {{}, Row(1)}}
       \cup {[raises |-> FALSE, returncode |-> 0, stderr |-> <<>>,
              stdout |-> <<>>, tree |-> t] : t \in Trees}

\* the gallery tool ends, with any of these outcomes
GalleryDoneTree(r) ==
    /\ rq[r].pc = "in_gallery" /\ busy = {r}
    /\ \E out \in TreeOutcomes : GalleryEnds(r, out, out.tree)

\* lines 214-215, 219-220, 233-236, 267-268: a failure text is edited in,
\* then the handler returns through the finally block
EditFailureDone(r) ==
    /\ rq[r].pc = "await_edit_failure" /\ CanRun(r)
    /\ \E ok \in BOOLEAN :
          IF ok
          THEN LET out == ReturnFrom([rq[r] EXCEPT !.log = Append(@, rq[r].pending),
                                                   !.pending = None, !.imgs = <<>>,
                                                   !.proc = [@ EXCEPT !.stderr = <<>>,
                                                                      !.stdout = <<>>]],
                                      fs, r)
               IN  rq' = [rq EXCEPT ![r] = out.rq] /\ fs' = out.fs
          ELSE rq' = [rq EXCEPT ![r] = Except([@ EXCEPT !.pending = None])]
               /\ UNCHANGED fs
    /\ UNCHANGED <<cfg, event, busy>>

\* a batch that runs one image into the next batch
BatchOneMore(files, i) ==
    SubSeq(files, i + 1,
           IF i + per_album + 1 < Len(files) THEN i + per_album + 1 ELSE Len(files))

\* send_in_albums: the batch files[i : i + per_album]
Batch(files, i) ==
    SubSeq(files, i + 1, IF i + per_album < Len(files) THEN i + per_album ELSE Len(files))

\* client.send_file reads every file of the batch
AllExist(batch) == \A j \in 1..Len(batch) : batch[j] \in fs.files

\* lines 238-243, 155-158: the delivery edit returns; send_in_albums sends
\* its first batch
EditAlbumDone(r) ==
    /\ rq[r].pc = "await_edit_album" /\ CanRun(r)
    /\ \E ok \in BOOLEAN :
          rq' = [rq EXCEPT ![r] =
                   IF ok
                   THEN [@ EXCEPT !.pc = "await_send", !.next = 0, !.imgs = <<>>,
                                  !.log = Append(@, "edit_deliver")]
                   ELSE Except(@)]
    /\ UNCHANGED <<cfg, event, fs, busy>>

\* send_in_albums stopping after its first batch
SendNextEarlyDelete(rec) == [rec EXCEPT !.next = @ + per_album, !.pc = "await_delete"]

\* lines 155-158, 249: a batch is sent; the next one goes out, or after the
\* last one the progress message's delete is sent
SendNext(rec) ==
    IF rec.next + per_album < Len(rec.files)
    THEN [rec EXCEPT !.next = @ + per_album]
    ELSE [rec EXCEPT !.next = @ + per_album, !.pc = "await_delete"]

SendAlbumDone(r) ==
    /\ rq[r].pc = "await_send" /\ CanRun(r)
    /\ \E ok \in BOOLEAN :
          LET batch == Batch(rq[r].files, rq[r].next)
          IN  rq' = [rq EXCEPT ![r] =
                   IF ok /\ AllExist(batch)
                   THEN SendNext([@ EXCEPT
                          !.log = Append(@, "send"),
                          !.sent = Append(@, [files |-> batch,
                                              caption |-> IF rq[r].next = 0
                                                          THEN "caption_head"
                                                          ELSE None])])
                   ELSE Except(@)]
    /\ UNCHANGED <<cfg, event, fs, busy>>

\* lines 249-255: the delete returns; the directory is removed when
\* AUTO_CLEAN is set; return through the finally block
DeleteAlbumDone(r) ==
    /\ rq[r].pc = "await_delete" /\ CanRun(r)
    /\ \E ok \in BOOLEAN :
          IF ok
          THEN LET f2 == IF cfg.auto_clean THEN clean_slideshow_dir(fs, K(r)) ELSE fs
                   out == ReturnFrom([rq[r] EXCEPT !.log = Append(@, "delete")], f2, r)
               IN  rq' = [rq EXCEPT ![r] = out.rq] /\ fs' = out.fs
          ELSE rq' = [rq EXCEPT ![r] = Except(@)] /\ UNCHANGED fs
    /\ UNCHANGED <<cfg, event, busy>>

\* lines 258-260: the video status edit returns; the download begins
EditVideoDone(r) ==
    /\ rq[r].pc = "await_edit_video" /\ CanRun(r)
    /\ \E ok \in BOOLEAN :
          IF ok
          THEN /\ rq' = [rq EXCEPT ![r] =
                           [@ EXCEPT !.pc = "in_download",
                                     !.log = @ \o <<"edit_video", "download">>]]
               /\ busy' = {r}
          ELSE /\ rq' = [rq EXCEPT ![r] = Except(@)]
               /\ UNCHANGED busy
    /\ UNCHANGED <<cfg, event, fs>>

\* what extract_info(download=True) does: it raises, leaving a fragment or
\* not, or it returns having written no file, tt_k.mp4, or a renamed file
DownloadOutcomes ==
    {[raises |-> TRUE, file |-> f, size |-> 0] : f \in {None, "part"}}
       \cup {[raises |-> FALSE, file |-> None, size |-> 0]}
       \cup {[raises |-> FALSE, file |-> "mp4", size |-> sz] : sz \in VideoSizes}
       \cup {[raises |-> FALSE, file |-> "final", size |-> 5 * MiB]}

WriteVideo(f, r, out) ==
    IF out.file = None THEN f
    ELSE [f EXCEPT !.files = safe_unlink(@, K(r), out.file)
                      \cup {[k |-> K(r), kind |-> out.file, w |-> r, name |-> <<>>,
                             isfile |-> TRUE, size |-> out.size]}]

TheFile(files, k, name) == CHOOSE f \in files : f.k = k /\ f.kind = name

\* lines 259-276: the download ends; the produced file is looked for and
\* measured, and the edit that reports the outcome is sent
DownloadDone(r) ==
    /\ rq[r].pc = "in_download" /\ busy = {r}
    /\ \E out \in DownloadOutcomes :
          LET f2 == WriteVideo(fs, r, out)
              final_path == IF out.file = "final" THEN "final" ELSE "mp4"
              tmp == IF Exists(f2.files, K(r), final_path) THEN final_path ELSE "mp4"
              size_mb == human_mb(TheFile(f2.files, K(r), tmp).size)
              written == IF out.file = None THEN {} ELSE {<<out.file, K(r)>>}
              rec == [rq[r] EXCEPT !.touched = @ \cup {<<"mp4", K(r)>>} \cup written,
                                   !.info = NoInfo]
          IN  /\ fs' = f2
              /\ rq' = [rq EXCEPT ![r] =
                    IF out.raises THEN Except(rec)
                    ELSE IF ~Exists(f2.files, K(r), tmp)
                    THEN [rec EXCEPT !.pc = "await_edit_failure", !.tmp_mp4 = tmp,
                                     !.pending = "edit_not_downloaded"]
                    ELSE IF size_mb > cfg.max_mb * 100
                    THEN [rec EXCEPT !.pc = "await_edit_too_big", !.tmp_mp4 = tmp,
                                     !.size_mb = size_mb]
                    ELSE [rec EXCEPT !.pc = "await_edit_deliver", !.tmp_mp4 = tmp,
                                     !.size_mb = size_mb]]
    /\ busy' = NoReq
    /\ UNCHANGED <<cfg, event>>

\* lines 272-274: the size-exceeded edit returns; the file is unlinked and
\* the handler returns through the finally block
EditTooBigDone(r) ==
    /\ rq[r].pc = "await_edit_too_big" /\ CanRun(r)
    /\ \E ok \in BOOLEAN :
          IF ok
          THEN LET f2 == [fs EXCEPT !.files = safe_unlink(@, K(r), rq[r].tmp_mp4)]
                   out == ReturnFrom([rq[r] EXCEPT !.log = Append(@, "edit_too_big")], f2, r)
               IN  rq' = [rq EXCEPT ![r] = out.rq] /\ fs' = out.fs
          ELSE rq' = [rq EXCEPT ![r] = Except(@)] /\ UNCHANGED fs
    /\ UNCHANGED <<cfg, event, busy>>

\* lines 276-277: the delivery edit returns; the video is sent
EditDeliverDone(r) ==
    /\ rq[r].pc = "await_edit_deliver" /\ CanRun(r)
    /\ \E ok \in BOOLEAN :
          rq' = [rq EXCEPT ![r] =
                   IF ok
                   THEN [@ EXCEPT !.pc = "await_send_video",
                                  !.log = Append(@, "edit_deliver")]
                   ELSE Except(@)]
    /\ UNCHANGED <<cfg, event, fs, busy>>

\* lines 277-278: send_file returns; the progress message's delete is sent
SendVideoDone(r) ==
    /\ rq[r].pc = "await_send_video" /\ CanRun(r)
    /\ \E ok \in BOOLEAN :
          rq' = [rq EXCEPT ![r] =
                   IF ok /\ Exists(fs.files, K(r), rq[r].tmp_mp4)
                   THEN [@ EXCEPT !.pc = "await_delete_video",
                                  !.log = Append(@, "send"),
                                  !.sent = Append(@,
                                     [files |-> <<TheFile(fs.files, K(r), rq[r].tmp_mp4)>>,
                                      caption |-> "size_mb"])]
                   ELSE Except(@)]
    /\ UNCHANGED <<cfg, event, fs, busy>>

\* lines 278-283, 287-294: the delete returns; clean_video_files when
\* AUTO_CLEAN is set; the try block ends and the finally block runs
DeleteVideoDone(r) ==
    /\ rq[r].pc = "await_delete_video" /\ CanRun(r)
    /\ \E ok \in BOOLEAN :
          IF ok
          THEN LET f2 == IF cfg.auto_clean
                         THEN [fs EXCEPT !.files =
                                  clean_video_files(@, K(r), rq[r].tmp_mp4)]
                         ELSE fs
                   out == ReturnFrom([rq[r] EXCEPT !.log = Append(@, "delete")], f2, r)
               IN  rq' = [rq EXCEPT ![r] = out.rq] /\ fs' = out.fs
          ELSE rq' = [rq EXCEPT ![r] = Except(@)] /\ UNCHANGED fs
    /\ UNCHANGED <<cfg, event, busy>>

\* lines 285-294: the error edit returns, or it raises and its exception
\* leaves the handler; the finally block runs either way
EditErrorDone(r) ==
    /\ rq[r].pc = "await_edit_error" /\ CanRun(r)
    /\ \E ok \in BOOLEAN :
          LET out == ReturnFrom(IF ok THEN [rq[r] EXCEPT !.log = Append(@, "edit_error")]
                                ELSE rq[r], fs, r)
          IN  /\ rq' = [rq EXCEPT ![r] = IF ok THEN out.rq
                                          ELSE [out.rq EXCEPT !.pc = "raised"]]
              /\ fs' = out.fs
    /\ UNCHANGED <<cfg, event, busy>>

\* one step of the handler of request r
StepBesidesGallery(r) ==
    \/ Dispatch(r)
    \/ ReplyDone(r)
    \/ ProbeDone(r)
    \/ EditSlideshowDone(r)
    \/ EditFailureDone(r)
    \/ EditAlbumDone(r)
    \/ SendAlbumDone(r)
    \/ DeleteAlbumDone(r)
    \/ EditVideoDone(r)
    \/ DownloadDone(r)
    \/ EditTooBigDone(r)
    \/ EditDeliverDone(r)
    \/ SendVideoDone(r)
    \/ DeleteVideoDone(r)
    \/ EditErrorDone(r)

Step(r) == StepBesidesGallery(r) \/ GalleryDone(r)

Next == \E r \in Requests : Step(r)

Spec == Init /\ [][Next]_vars

\* the access filter alone, over every configuration and conversation
NextAccess == \E r \in Requests : Dispatch(r)

SpecAccess == InitAccess /\ [][NextAccess]_vars

\* one handler alone, the gallery tool leaving any tree of entries
InitSlides ==
    \E c \in Configs, e \in Events :
       /\ c.allowed = {} /\ c.only_private
       /\ e[1].chat.kind = "user" /\ e[1].chat.username # <<>>
       /\ e[2].chat.kind = "user" /\ e[2].chat.entity
       /\ e[1].id = 7 /\ e[2].id = 8
       /\ InitWith(c, e)

NextSlides == StepBesidesGallery(1) \/ GalleryDoneTree(1)

SpecSlides == InitSlides /\ [][NextSlides]_vars

\* messages with any of the texts, from two private conversations that
\* the filter lets in, up to the acknowledgment
InitMessage ==
    \E c \in Configs, e \in EventsWith(Texts) :
       /\ c.allowed = {} /\ c.auto_clean
       /\ e[1].chat.kind = "user" /\ e[1].chat.username # <<>>
       /\ e[2].chat.kind = "user" /\ e[2].chat.entity
       /\ e[1].id = 7 /\ e[2].id = 8
       /\ InitWith(c, e)

NextMessage == \E r \in Requests : Dispatch(r) \/ ReplyDone(r)

SpecMessage == InitMessage /\ [][NextMessage]_vars

(***************************************************************************)
(* Vocabulary of the properties.                                           *)
(***************************************************************************)
HasEnded(r) == rq[r].pc \in {"returned", "raised"}

InFlight(r) == rq[r].pc \notin {"idle", "unhandled", "returned", "raised"}

\* the acknowledgment reply of r was created
Acked(r) == rq[r].log # <<>> /\ rq[r].log[1] = "reply"

Has(r, tag) == \E i \in 1..Len(rq[r].log) : rq[r].log[i] = tag

Count(r, tag) == Cardinality({i \in 1..Len(rq[r].log) : rq[r].log[i] = tag})

FetchTags == {"gallery", "download"}

FailureTags ==
    {"edit_gallery_failed", "edit_no_images", "edit_all_oversized",
     "edit_not_downloaded", "edit_too_big"}

\* C1: with auto-clean enabled, the directory tt_<message id> of an
\* acknowledged request does not exist when the handler returns
C1_SlideDirRemoved ==
    \A r \in Requests :
       (cfg.auto_clean /\ Acked(r) /\ rq[r].pc = "returned") => ~rq[r].left.dir

\* C2: for either value of auto-clean, neither the video file of an
\* acknowledged request (under its first or its final name) nor a fragment
\* of it exists when the handler returns
C2_NoVideoArtifacts ==
    \A r \in Requests :
       (Acked(r) /\ rq[r].pc = "returned")
          => (~rq[r].left.video /\ ~rq[r].left.part)

\* C3: no exception leaves tiktok_handler
C3_NoExceptionEscapes == \A r \in Requests : rq[r].pc # "raised"

\* the probe of r failed with an error outside the unsupported-URL class
ProbeFailedOther(r) ==
    rq[r].info.err \notin {"none", "unset"} /\ ~rq[r].info.unsupported

\* C4 as claimed: a probe that fails with an error outside the
\* unsupported-URL class is not followed by a download attempt
C4_FailedProbeNoDownload ==
    \A r \in Requests : ProbeFailedOther(r) => rq[r].pc # "in_download"

\* C4 as amended: after an exception inside the try block the handler does
\* nothing but attempt the error edit (no fetch, no send, no delete follows),
\* and it ends returned only with the error text edited in; a failed probe
\* raises nothing: the unsupported class goes on to the slideshow status,
\* any other error to the video status and the download
C4_ExceptionStopsRequest ==
    \A r \in Requests :
       LET log == rq[r].log
       IN  /\ \A i \in 1..Len(log) :
                log[i] = "exc" =>
                   /\ \A j \in (i + 1)..Len(log) : log[j] = "edit_error" /\ j = i + 1
                   /\ rq[r].pc \in {"await_edit_error", "returned", "raised"}
                   /\ rq[r].pc = "returned" => log[Len(log)] = "edit_error"
                   /\ rq[r].pc = "raised" => log[Len(log)] = "exc"
           /\ ProbeFailedOther(r) => rq[r].pc \in {"await_edit_video", "in_download"}
           /\ rq[r].info.unsupported => rq[r].pc = "await_edit_slideshow"

\* an exception during the download was reported and the handler returned
C4_Witness ==
    \E r \in Requests :
       /\ rq[r].pc = "returned"
       /\ \E i \in 1..Len(rq[r].log) :
             /\ rq[r].log[i] = "download"
             /\ i + 2 = Len(rq[r].log)
             /\ rq[r].log[i + 1] = "exc"
             /\ rq[r].log[i + 2] = "edit_error"

\* C5: two requests in flight at the same time, from different
\* conversations, touch disjoint sets of paths
C5_DisjointPaths ==
    \A r1, r2 \in Requests :
       (r1 # r2 /\ InFlight(r1) /\ InFlight(r2) /\ event[r1].chat # event[r2].chat)
          => rq[r1].touched \cap rq[r2].touched = {}

\* C6: while a request is inside an external call, the handler of any other
\* unfinished request can take its next step
C6_OthersRunDuringExternalCall ==
    \A r1, r2 \in Requests :
       (r1 # r2 /\ busy = {r1} /\ ~HasEnded(r2)) => ENABLED Step(r2)

\* the media sends a request owes: one per album, or the one video
SendsOwed(r) ==
    IF Has(r, "gallery")
    THEN (Len(rq[r].files) + per_album - 1) \div per_album
    ELSE 1

\* every media send of r has completed
Delivered(r) == Has(r, "edit_deliver") /\ Count(r, "send") = SendsOwed(r)

\* C7 as claimed, its last part: when the handler has ended, the progress
\* message is deleted exactly in the runs that delivered
C7_DeletedIffDelivered ==
    \A r \in Requests : HasEnded(r) => (Has(r, "delete") <=> Delivered(r))

\* C7 as amended: one reply, first in the run and before the probe; the
\* status edit of a branch comes right before its fetch; media is sent only
\* after a fetch that was followed by no exception and no failure report,
\* and after the delivery edit; the delete comes last, after every send
\* owed, and is followed by a normal return; a run that delivered and met no
\* exception has deleted the progress message, and a run that met an
\* exception or reported a failure has not
C7_ProgressMessageOrder ==
    \A r \in Requests :
       LET log == rq[r].log
           n == Len(log)
       IN  /\ n > 0 => log[1] = "reply"
           /\ \A i \in 2..n : log[i] # "reply"
           /\ \A i \in 1..n : log[i] = "probe" => i = 2
           /\ \A i \in 1..n : log[i] = "gallery" => log[i - 1] = "edit_slideshow"
           /\ \A i \in 1..n : log[i] = "download" => log[i - 1] = "edit_video"
           /\ \A i \in 1..n :
                 log[i] = "send" =>
                    /\ log[i - 1] \in {"edit_deliver", "send"}
                    /\ \E j \in 1..(i - 1) : log[j] \in FetchTags
                    /\ \A j \in 1..(i - 1) : log[j] \notin FailureTags \cup {"exc"}
           /\ Len(rq[r].sent) = Count(r, "send")
           /\ \A i \in 1..n :
                 log[i] = "delete" =>
                    /\ i = n
                    /\ Delivered(r)
                    /\ rq[r].pc = "returned"
           /\ (HasEnded(r) /\ Delivered(r) /\ ~Has(r, "exc")) => Has(r, "delete")
           /\ (Has(r, "exc") \/ \E t \in FailureTags : Has(r, t)) => ~Has(r, "delete")

\* a slideshow of two albums was delivered and its progress message deleted
C7_Witness ==
    \E r \in Requests :
       /\ rq[r].pc = "returned"
       /\ Has(r, "delete")
       /\ Len(rq[r].sent) = 2

\* the rule of section 4.3 as C8 words it
ClaimedSlideshow(info) ==
    \/ info.err # "none" /\ info.unsupported
    \/ /\ info.err = "none" /\ ~info.empty
       /\ \/ info.duration \in {NoDuration, 0} /\ info.thumbs >= 2
          \/ info.entries \in {"dicts", "mixed"}

\* the same rule with the sub-entries required to be mappings, all of them
AmendedSlideshow(info) ==
    \/ info.err # "none" /\ info.unsupported
    \/ /\ info.err = "none" /\ ~info.empty
       /\ \/ info.duration \in {NoDuration, 0} /\ info.thumbs >= 2
          \/ info.entries = "dicts"

Classified(r) == rq[r].pc \in {"await_edit_slideshow", "await_edit_video"}

\* C8 as claimed: the slideshow branch is taken exactly when the probe
\* failed as unsupported, or there is no duration and two thumbnails or
\* more, or the list of sub-entries is not empty
C8_BranchAsClaimed ==
    \A r \in Requests :
       Classified(r) =>
          (rq[r].pc = "await_edit_slideshow" <=> ClaimedSlideshow(rq[r].info))

\* C8 as amended: as claimed, with a non-empty list of sub-entries counting
\* only when every sub-entry is a mapping
C8_BranchAsAmended ==
    \A r \in Requests :
       Classified(r) =>
          (rq[r].pc = "await_edit_slideshow" <=> AmendedSlideshow(rq[r].info))

\* no duration and three thumbnails went to the slideshow branch
C8_Witness ==
    \E r \in Requests :
       /\ rq[r].pc = "await_edit_slideshow"
       /\ rq[r].info.err = "none"
       /\ rq[r].info.duration = NoDuration
       /\ rq[r].info.thumbs = 3
       /\ rq[r].info.entries = "absent"

\* the normalized key of C9: "@username" lowercased, or the numeric id
\* written out
NormalizedKey(c) ==
    IF c.username # <<>> THEN Lower(<<"@">> \o c.username) ELSE Str(c.id)

\* the policy of section 4.2
Policy(c) ==
    IF cfg.only_private /\ c.kind # "user" THEN FALSE
    ELSE IF cfg.allowed = {} THEN TRUE
    ELSE NormalizedKey(c) \in cfg.allowed

\* C9: the handler goes on to the acknowledgment exactly for the
\* conversations the policy permits
C9_AccessPolicy ==
    \A r \in Requests :
       rq[r].pc # "idle" => (rq[r].pc = "await_reply" <=> Policy(event[r].chat))

\* a conversation passed on the strength of its lowercased username, and a
\* channel was turned away by private-only though it is in the allow-list
C9_Witness ==
    /\ cfg.allowed # {}
    /\ cfg.only_private
    /\ \E r \in Requests :
          /\ rq[r].pc = "await_reply"
          /\ event[r].chat.username = <<"B", "o", "b">>
    /\ \E r \in Requests :
          /\ rq[r].pc = "returned"
          /\ event[r].chat.kind = "channel"
          /\ NormalizedKey(event[r].chat) \in cfg.allowed

\* C10: a message of a conversation the filter denies causes no reply,
\* edit, delete or send and touches no path
C10_DeniedIsSilent ==
    \A r \in Requests :
       ~Policy(event[r].chat) =>
          /\ rq[r].log = <<>>
          /\ rq[r].sent = <<>>
          /\ rq[r].touched = {}
          /\ rq[r].pc \in {"idle", "returned"}

\* a denied message was dropped while the other request went on working
C10_Witness ==
    \E r1, r2 \in Requests :
       /\ ~Policy(event[r1].chat)
       /\ rq[r1].pc = "returned"
       /\ rq[r2].touched # {}
       /\ rq[r2].sent # <<>>

\* C11: on the video branch a downloaded file larger than the cap is never
\* sent, and a request that reported the size-exceeded or the
\* nothing-downloaded failure has sent nothing and returned without raising
C11_OversizedVideoRefused ==
    \A r \in Requests :
       /\ \A i \in 1..Len(rq[r].sent) :
             rq[r].sent[i].caption = "size_mb"
                => rq[r].sent[i].files[1].size <= cfg.max_mb * MiB
       /\ (Has(r, "edit_too_big") \/ Has(r, "edit_not_downloaded"))
             => (rq[r].sent = <<>> /\ rq[r].pc = "returned")

\* the size of image p does not exceed the cap
WithinCap(p) == p.size <= cfg.max_mb * MiB

\* C12: on the slideshow branch the images kept for delivery are exactly
\* the collected images whose size does not exceed the cap, in collected
\* order, the skip count is the number of collected images over the cap,
\* and when every collected image is over the cap the failure is reported
\* and nothing is sent
C12_KeptWithinCap ==
    \A r \in Requests :
       /\ rq[r].pc = "await_edit_album" =>
             /\ rq[r].files = SelectSeq(rq[r].imgs, WithinCap)
             /\ rq[r].skipped = Len(rq[r].imgs) - Len(SelectSeq(rq[r].imgs, WithinCap))
       /\ (rq[r].imgs # <<>> /\ SelectSeq(rq[r].imgs, WithinCap) = <<>>) =>
             /\ rq[r].pc = "await_edit_failure"
             /\ rq[r].pending = "edit_all_oversized"
             /\ rq[r].sent = <<>>

\* the images of a sequence of albums, in send order
RECURSIVE Flat(_)
Flat(albums) ==
    IF albums = <<>> THEN <<>> ELSE Head(albums).files \o Flat(Tail(albums))

\* C13: every album send_in_albums sent holds between 1 and 10 images; the
\* albums sent so far, concatenated in send order, are the beginning of the
\* list it was given, and the whole list once it has returned; the first
\* album carries the caption and no later one does
C13_AlbumsPartitionList ==
    \A r \in Requests :
       Has(r, "gallery") =>
          LET a == rq[r].sent
              sofar == Flat(a)
          IN  /\ \A i \in 1..Len(a) : Len(a[i].files) \in 1..10
              /\ Len(sofar) <= Len(rq[r].files)
              /\ sofar = SubSeq(rq[r].files, 1, Len(sofar))
              /\ (rq[r].pc = "await_delete" \/ Has(r, "delete"))
                    => sofar = rq[r].files
              /\ \A i \in 1..Len(a) : (a[i].caption = "caption_head") <=> (i = 1)
              /\ \A i \in 1..Len(a) : i > 1 => a[i].caption = None

\* a list of 21 images went out as albums of 10, 10 and 1, and a list of
\* 10 as one album
C13_Witness ==
    \E r \in Requests :
       /\ rq[r].pc = "await_delete"
       /\ Len(rq[r].files) = 21
       /\ Len(rq[r].sent) = 3
       /\ Len(rq[r].sent[3].files) = 1

\* s is the beginning of t
IsPrefix(s, t) == Len(s) <= Len(t) /\ s = SubSeq(t, 1, Len(s))

\* the gallery tool of r exited with a non-zero status
GalleryFailed(r) == rq[r].proc.returncode # 0

\* C14 as claimed: when the gallery tool has exited with a non-zero status,
\* the handler returns with the failure text, of at most 500 characters of
\* the tool's output, edited into the progress message, with nothing
\* collected or sent and no delete
C14_FailureTextShown ==
    \A r \in Requests :
       (GalleryFailed(r) /\ rq[r].pc = "returned") =>
          /\ Has(r, "edit_gallery_failed")
          /\ Len(rq[r].shown) <= 500
          /\ rq[r].files = <<>> /\ rq[r].sent = <<>>
          /\ ~Has(r, "delete")

\* C14 as amended: after a non-zero exit no image is collected or sent and
\* the progress message is never deleted; the handler's next call is the
\* edit to the failure text, which carries the first 500 characters at most
\* of the tool's stripped error stream (of its stripped output stream when
\* that is empty); the handler returns when that edit succeeds, and goes on
\* to the error edit, the failure text not shown, when the edit raises
C14_FailureEditAttempted ==
    \A r \in Requests :
       GalleryFailed(r) =>
          /\ rq[r].imgs = <<>> /\ rq[r].files = <<>> /\ rq[r].sent = <<>>
          /\ ~Has(r, "send") /\ ~Has(r, "delete")
          /\ rq[r].pc \in {"await_edit_failure", "returned", "await_edit_error", "raised"}
          /\ rq[r].pc = "await_edit_failure" =>
                /\ rq[r].pending = "edit_gallery_failed"
                /\ rq[r].log[Len(rq[r].log)] = "gallery"
                /\ Len(rq[r].shown) <= 500
                /\ IF Strip(rq[r].proc.stderr) # <<>>
                   THEN IsPrefix(rq[r].shown, Strip(rq[r].proc.stderr))
                   ELSE IsPrefix(rq[r].shown, Strip(rq[r].proc.stdout))
                /\ Len(rq[r].shown) < 500 =>
                      rq[r].shown \in {Strip(rq[r].proc.stderr), Strip(rq[r].proc.stdout)}
          /\ Has(r, "edit_gallery_failed") =>
                /\ rq[r].pc = "returned"
                /\ rq[r].log[Len(rq[r].log)] = "edit_gallery_failed"
                /\ Len(rq[r].shown) <= 500
          /\ (rq[r].pc # "await_edit_failure" /\ ~Has(r, "edit_gallery_failed"))
                => (Has(r, "exc") /\ rq[r].shown = <<>>)

\* the tool failed with 501 characters on its error stream and the handler
\* returned with the first 500 of them shown
C14_Witness ==
    \E r \in Requests :
       /\ GalleryFailed(r)
       /\ rq[r].pc = "returned"
       /\ Has(r, "edit_gallery_failed")
       /\ Len(rq[r].shown) = 500

\* C15: a message of a permitted conversation whose text holds a link at
\* any position is handed to the handler and acknowledged with the first
\* link of the text in normalized form
C15_UrlAnywhereAcknowledged ==
    \A r \in Requests :
       (rq[r].pc # "idle" /\ Policy(event[r].chat) /\ PatternSearch(event[r].text))
          => /\ rq[r].pc # "unhandled"
             /\ rq[r].url = normalize_tiktok_url(SearchGroup(event[r].text))

\* b is a with a slash added at its end, or a, which has no query and no
\* fragment, with a query added
DiffersBySlashOrQuery(a, b) ==
    \/ b = a \o <<"/">>
    \/ /\ IsPrefix(a \o <<"?">>, b)
       /\ \A i \in 1..Len(a) : a[i] \notin {"?", "#"}
       /\ \A i \in 1..Len(b) : b[i] # "#"

\* C16: normalize_tiktok_url gives its own output back unchanged, and two
\* links that differ only by a trailing slash or by a query string are
\* normalized to the same link
C16_NormalizeIdempotent ==
    \A r \in Requests :
       rq[r].raw_url # <<>> =>
          /\ normalize_tiktok_url(rq[r].url) = rq[r].url
          /\ normalize_tiktok_url(rq[r].raw_url \o <<"/">>) = rq[r].url
          /\ \A r2 \in Requests :
                (rq[r2].raw_url # <<>> /\ DiffersBySlashOrQuery(rq[r].raw_url, rq[r2].raw_url))
                   => rq[r2].url = rq[r].url

\* the acknowledgments of two messages are on their way whose links differ
\* by a trailing slash and a query string, with one normalized link that
\* is neither of them
C16_Witness ==
    \E r1, r2 \in Requests :
       /\ rq[r1].pc = "await_reply" /\ rq[r2].pc = "await_reply"
       /\ DiffersBySlashOrQuery(rq[r1].raw_url, rq[r2].raw_url)
       /\ rq[r2].raw_url[Len(rq[r1].raw_url)] = "/"
       /\ rq[r1].url = rq[r2].url
       /\ rq[r1].url # rq[r1].raw_url

\* the last component of the path ends, letter case aside, with one of the
\* image suffixes, and has a character before it
IsImageName(name) ==
    LET last == PathName(name)
    IN  \E e \in exts :
           /\ Len(last) > Len(e)
           /\ HasAt(last, Len(last) - Len(e) + 1, e)

\* the path of an entry as a string
FullPath(f) == <<"t", "t", "_">> \o Str(f.k) \o <<"/">> \o f.name

\* the sequence of entries is in ascending order of path, none twice
Ascending(q) == \A i, j \in 1..Len(q) : i < j => StrLess(FullPath(q[i]), FullPath(q[j]))

C18_SendsOwnImagesOnly ==
    \A r \in Requests :
       Has(r, "gallery") =>
          \A i \in 1..Len(rq[r].sent) :
             \A j \in 1..Len(rq[r].sent[i].files) : rq[r].sent[i].files[j].w = r

\* the last thing done to the progress message of r was an edit to a
\* failure text or to the error text
LastContentIsFailure(r) ==
    /\ ~Has(r, "delete")
    /\ \E i \in 1..Len(rq[r].log) :
          /\ rq[r].log[i] \in FailureTags \cup {"edit_error"}
          /\ \A j \in (i + 1)..Len(rq[r].log) :
                rq[r].log[j] \notin {"edit_slideshow", "edit_video", "edit_deliver"}

\* C19: an acknowledged request whose handler has ended has returned, and
\* exactly one of the two outcomes holds: the media was delivered and the
\* progress message deleted, or the progress message exists and its last
\* content is a failure or error text
C19_OneTerminalOutcome ==
    \A r \in Requests :
       (Acked(r) /\ HasEnded(r)) =>
          /\ rq[r].pc = "returned"
          /\ (Delivered(r) /\ Has(r, "delete")) # LastContentIsFailure(r)

\* C20: with a non-empty allow-list, a conversation whose numeric id, as a
\* string, is in the allow-list passes the filter when private-only does
\* not turn it away, with or without a username
C20_ListedIdPermitted ==
    \A r \in Requests :
       (/\ rq[r].pc # "idle"
        /\ cfg.allowed # {}
        /\ Str(event[r].chat.id) \in cfg.allowed
        /\ ~(cfg.only_private /\ ~is_private(event[r].chat)))
          => rq[r].pc = "await_reply"

====
